---- MODULE Spec2Model ----
(***************************************************************************)
(* A model of lambda_image_hash (src/main.rs): the Lambda handler          *)
(* put_object, its S3 download helper, the Request/Response envelopes and  *)
(* the service loop set up in main.                                        *)
(*                                                                         *)
(* put_object is an async fn: it yields at its two awaits (get_object      *)
(* send, body collect) and runs synchronously in between.  The model has   *)
(* one action per resumption; the synchronous stretch after the body has   *)
(* been collected is the composition RunToEnd of one operator per statement.   *)
(*                                                                         *)
(* Option<T> is modelled as a sequence: <<>> is None, <<v>> is Some(v).    *)
(* Strings that the program inspects character by character (the algo      *)
(* selector of the JSON payload) are sequences of ASCII codes.             *)
(***************************************************************************)
EXTENDS Integers, Sequences, FiniteSets, TLC

\* Number of invocations the runtime delivers.
NInv == 2

\* Number of leading selector letters whose case the selector inputs vary.
MaxFlip == 3

Inv == 1..NInv

Some(v) == <<v>>

IsSome(o) == o # <<>>

Unwrap(o) == o[1]

(***************************************************************************)
(* HashAlg, image_hasher's algorithm enumeration, and serde's derived      *)
(* Deserialize for it: a unit variant is written as the JSON string that   *)
(* spells the variant's name exactly.                                      *)
(***************************************************************************)
HashAlg == {"Mean", "Median", "Gradient", "VertGradient", "DoubleGradient", "Blockhash"}

VariantName(a) ==
    CASE a = "Mean" -> <<77, 101, 97, 110>>
      [] a = "Median" -> <<77, 101, 100, 105, 97, 110>>
      [] a = "Gradient" -> <<71, 114, 97, 100, 105, 101, 110, 116>>
      [] a = "VertGradient" -> <<86, 101, 114, 116, 71, 114, 97, 100, 105, 101, 110, 116>>
      [] a = "DoubleGradient" ->
            <<68, 111, 117, 98, 108, 101, 71, 114, 97, 100, 105, 101, 110, 116>>
      [] a = "Blockhash" -> <<66, 108, 111, 99, 107, 104, 97, 115, 104>>

\* A deserializer that folds case before matching (what serde does NOT derive).
ParseHashAlgAnyCase(sel) ==
    LET lower(s) == [k \in 1..Len(s) |-> IF s[k] \in 65..90 THEN s[k] + 32 ELSE s[k]]
        hit == {a \in HashAlg : lower(VariantName(a)) = lower(sel)}
    IN  IF hit = {} THEN <<>> ELSE Some(CHOOSE a \in hit : TRUE)

\* The variant a selector string names, if any: an exact, case-sensitive match.
ParseHashAlg(sel) ==
    LET hit == {a \in HashAlg : VariantName(a) = sel}
    IN  IF hit = {} THEN <<>> ELSE Some(CHOOSE a \in hit : TRUE)

(***************************************************************************)
(* Request: the payload of a LambdaEvent.  A raw event carries the path    *)
(* and an optional selector string; Deserialize yields the typed Request   *)
(* or fails, in which case the runtime never calls the handler.            *)
(***************************************************************************)
\* A deserializer that drops a selector it does not know (not what is derived).
DeserializeLenient(raw) ==
    [ok |-> TRUE,
     v |-> [path |-> raw.path,
            algo |-> IF raw.algo = <<>> THEN <<>> ELSE ParseHashAlg(Unwrap(raw.algo))]]

\* #[derive(Deserialize)] struct Request { path: String, algo: Option<HashAlg> }
Deserialize(raw) ==
    IF raw.algo = <<>>
    THEN [ok |-> TRUE, v |-> [path |-> raw.path, algo |-> <<>>]]
    ELSE LET a == ParseHashAlg(Unwrap(raw.algo))
         IN  IF a = <<>>
             THEN [ok |-> FALSE, v |-> [path |-> raw.path, algo |-> <<>>]]
             ELSE [ok |-> TRUE, v |-> [path |-> raw.path, algo |-> a]]

(***************************************************************************)
(* The object store behind the S3 client: the objects of the bucket named  *)
(* by BUCKET_NAME.  An object's bytes are described by what the image      *)
(* crate reads from them: the magic number, whether the stream behind it   *)
(* is intact, and the picture it encodes.                                  *)
(***************************************************************************)
PngA == [magic |-> "png", intact |-> TRUE, width |-> 2, height |-> 3, pixels |-> "A"]

JpegB == [magic |-> "jpeg", intact |-> TRUE, width |-> 4, height |-> 1, pixels |-> "B"]

TruncatedPng == [magic |-> "png", intact |-> FALSE, width |-> 2, height |-> 3, pixels |-> "A"]

PlainText == [magic |-> "", intact |-> FALSE, width |-> 0, height |-> 0, pixels |-> ""]

Keys == {"a.png", "b.jpg", "trunc.png", "notes.txt", "missing"}

Objects ==
    [k \in Keys |->
        CASE k = "a.png" -> Some(PngA)
          [] k = "b.jpg" -> Some(JpegB)
          [] k = "trunc.png" -> Some(TruncatedPng)
          [] k = "notes.txt" -> Some(PlainText)
          [] OTHER -> <<>>]

Store(client, bucket, key) ==
    IF client = "s3" /\ bucket = "images" /\ key \in Keys THEN Objects[key] ELSE <<>>

(***************************************************************************)
(* TypedError and Response.                                                *)
(***************************************************************************)
S3Get == [kind |-> "TypedError", tag |-> "S3Get"]

\* A download failure reported under the fetch variant (not what the code does).
S3DownloadMistagged(msg) == [kind |-> "TypedError", tag |-> "S3Get", msg |-> msg]

S3Download(msg) == [kind |-> "TypedError", tag |-> "S3Download", msg |-> msg]

InvalidFormat(msg) == [kind |-> "TypedError", tag |-> "InvalidFormat", msg |-> msg]

\* What the runtime reports when the payload does not deserialize.
PayloadError == [kind |-> "RuntimeError", tag |-> "Deserialize"]

Response(hash_base64, algo, image_size, time_elapsed) ==
    [kind |-> "Response", hash_base64 |-> hash_base64, algo |-> algo,
     image_size |-> image_size, time_elapsed |-> time_elapsed]

VARIABLES
    s3_client,      \* main: the client shared by all invocations
    bucket_name,    \* main: BUCKET_NAME
    event,          \* event[i]: the raw payload of invocation i
    pc,             \* pc[i]: "off", "new", "getting", "collecting", "done"
    frame,          \* frame[i]: the locals of invocation i's put_object call
    result          \* result[i]: what invocation i returned, once it has

vars == <<s3_client, bucket_name, event, pc, frame, result>>

NoEvent == [path |-> "", algo |-> <<>>]

Frame0 ==
    [payload |-> <<>>, key |-> "", response |-> <<>>, data |-> <<>>, bytes |-> <<>>,
     format |-> <<>>, img |-> <<>>, size |-> <<>>, algo |-> <<>>, hasher |-> <<>>,
     start |-> <<>>, hash |-> <<>>, elapsed |-> <<>>, log |-> <<>>, ret |-> <<>>]

Logged(st, ops) == [st EXCEPT !.log = st.log \o ops]

(***************************************************************************)
(* The image and image_hasher calls put_object makes.                      *)
(***************************************************************************)
\* with_guessed_format: the format the magic number names, None if it names none.
GuessFormat(bytes) == IF bytes.magic \in {"png", "jpeg"} THEN Some(bytes.magic) ELSE <<>>

\* decode: fails when no format was guessed or the decoder rejects the stream.
DecodeImage(format, bytes) ==
    IF format = <<>>
    THEN [ok |-> FALSE, msg |-> "format could not be determined"]
    ELSE IF ~bytes.intact
         THEN [ok |-> FALSE, msg |-> "format error decoding " \o Unwrap(format)]
         ELSE [ok |-> TRUE, msg |-> ""]

Picture(bytes) == [width |-> bytes.width, height |-> bytes.height, pixels |-> bytes.pixels]

\* A hasher whose output also depends on how many invocations have finished.
HashImageSeeded(hasher, img) ==
    [alg |-> hasher.hash_alg, of |-> img.pixels,
     seed |-> Cardinality({j \in Inv : pc[j] = "done"})]

\* hash_image: the hash is a function of the hasher's algorithm and the picture.
HashImage(hasher, img) == [alg |-> hasher.hash_alg, of |-> img.pixels]

\* to_base64: the text encoding of the hash.
ToBase64(hash) == [base64 |-> hash]

(***************************************************************************)
(* put_object after the body has been collected (lines 82-106), one        *)
(* operator per statement.  st is the frame; a statement does nothing once *)
(* the function has returned (st.ret is set), which is what `?` does.      *)
(* st.log lists the calls made so far, in order; Instant::now() reads the  *)
(* invocation's logical clock, the number of calls it has made.            *)
(***************************************************************************)
Now(st) == Len(st.log)

\* let bytes = data.into_bytes();
StepBytes(st) ==
    IF IsSome(st.ret) THEN st ELSE [st EXCEPT !.bytes = st.data]

\* ImageReader::new(Cursor::new(bytes)).with_guessed_format()?  The reader is an
\* in-memory cursor, so the guess itself does not fail: it leaves the format unset.
StepGuess(st) ==
    IF IsSome(st.ret) THEN st
    ELSE Logged([st EXCEPT !.format = GuessFormat(Unwrap(st.bytes))],
                <<"with_guessed_format">>)

\* A decode whose error is dropped: the pipeline goes on with whatever was read.
StepDecodeUnchecked(st) ==
    IF IsSome(st.ret) THEN st
    ELSE Logged([st EXCEPT !.img = Some(Picture(Unwrap(st.bytes)))], <<"decode">>)

\* .decode().map_err(|e| TypedError::InvalidFormat(e.to_string()))?
StepDecode(st) ==
    IF IsSome(st.ret) THEN st
    ELSE LET r == DecodeImage(st.format, Unwrap(st.bytes))
         IN  IF r.ok
             THEN Logged([st EXCEPT !.img = Some(Picture(Unwrap(st.bytes)))], <<"decode">>)
             ELSE Logged([st EXCEPT !.ret = Some(InvalidFormat(r.msg))], <<"decode">>)

\* let (width, height) = img.dimensions();
StepDims(st) ==
    IF IsSome(st.ret) THEN st
    ELSE Logged([st EXCEPT !.size = Some(<<Unwrap(st.img).width, Unwrap(st.img).height>>)],
                <<"dimensions">>)

\* A default other than Gradient.
StepAlgoDefaultMean(st) ==
    IF IsSome(st.ret) THEN st
    ELSE LET req == Unwrap(st.payload)
         IN  [st EXCEPT !.algo = IF IsSome(req.algo) THEN req.algo ELSE Some("Mean")]

\* let algo = event.payload.algo.unwrap_or(HashAlg::Gradient);
StepAlgo(st) ==
    IF IsSome(st.ret) THEN st
    ELSE LET req == Unwrap(st.payload)
         IN  [st EXCEPT !.algo = IF IsSome(req.algo) THEN req.algo ELSE Some("Gradient")]

\* let hasher = HasherConfig::new().hash_alg(algo).to_hasher();
StepHasher(st) ==
    IF IsSome(st.ret) THEN st
    ELSE Logged([st EXCEPT !.hasher = Some([hash_alg |-> Unwrap(st.algo)])], <<"to_hasher">>)

\* let start = std::time::Instant::now();
StepStart(st) ==
    IF IsSome(st.ret) THEN st ELSE [st EXCEPT !.start = Some(Now(st))]

\* A hash step that runs whether or not the function has returned.
StepHashAlways(st) ==
    Logged([st EXCEPT !.hash = Some([alg |-> "Gradient", of |-> ""])],
           <<"hash_image:normalize", "hash_image:transform">>)

\* let hash = hasher.hash_image(&img);  The hasher is handed the decoded image as
\* it is, so the resize and grayscale conversion happen inside this call.
StepHash(st) ==
    IF IsSome(st.ret) THEN st
    ELSE Logged([st EXCEPT !.hash = Some(HashImage(Unwrap(st.hasher), Unwrap(st.img)))],
                <<"hash_image:normalize", "hash_image:transform">>)

\* let elapsed = start.elapsed();
StepElapsed(st) ==
    IF IsSome(st.ret) THEN st ELSE [st EXCEPT !.elapsed = Some(Now(st) - Unwrap(st.start))]

\* Ok(Response { hash_base64: hash.to_base64(), image_size, algo, time_elapsed })
StepRespond(st) ==
    IF IsSome(st.ret) THEN st
    ELSE Logged([st EXCEPT !.ret = Some(Response(ToBase64(Unwrap(st.hash)), Unwrap(st.algo),
                                                 Unwrap(st.size), Unwrap(st.elapsed)))],
                <<"to_base64">>)

\* The same statements with the timer started before the image is loaded.
RunToEndTimerAroundPipeline(st) ==
    StepRespond(StepElapsed(StepHash(StepHasher(StepAlgo(StepDims(StepDecode(StepGuess(
        StepStart(StepBytes(st))))))))))

RunToEnd(st) ==
    StepRespond(StepElapsed(StepHash(StepStart(StepHasher(StepAlgo(StepDims(StepDecode(
        StepGuess(StepBytes(st))))))))))

(***************************************************************************)
(* The actions: the runtime's delivery of an event and the resumptions of  *)
(* put_object.                                                             *)
(***************************************************************************)
Return(i, st) ==
    /\ frame' = [frame EXCEPT ![i] = st]
    /\ result' = [result EXCEPT ![i] = st.ret]
    /\ pc' = [pc EXCEPT ![i] = "done"]

\* A key taken from the first invocation's event instead of the handler's own.
KeyOfFirst(i) == event[1].path

\* let key = event.payload.path.clone();
Key(i) == Deserialize(event[i]).v.path

\* The runtime deserializes the payload and calls the handler, which runs up to
\* its first await: download_from_s3 has sent get_object(bucket, key).
Invoke(i) ==
    /\ pc[i] = "new"
    /\ Deserialize(event[i]).ok
    /\ frame' = [frame EXCEPT ![i] =
                    Logged([Frame0 EXCEPT !.payload = Some(Deserialize(event[i]).v),
                                          !.key = Key(i)],
                           <<"get_object">>)]
    /\ pc' = [pc EXCEPT ![i] = "getting"]
    /\ UNCHANGED <<s3_client, bucket_name, event, result>>

\* The payload is not a Request: the runtime reports the error, the handler is
\* not called.
RejectEvent(i) ==
    /\ pc[i] = "new"
    /\ ~Deserialize(event[i]).ok
    /\ result' = [result EXCEPT ![i] = Some(PayloadError)]
    /\ pc' = [pc EXCEPT ![i] = "done"]
    /\ UNCHANGED <<s3_client, bucket_name, event, frame>>

\* download_from_s3, Ok(output): put_object goes on to response.body.collect().
GetObjectOk(i) ==
    /\ pc[i] = "getting"
    /\ IsSome(Store(s3_client, bucket_name, frame[i].key))
    /\ frame' = [frame EXCEPT ![i] =
                    Logged([frame[i] EXCEPT !.response =
                                Some([body |-> Unwrap(Store(s3_client, bucket_name,
                                                            frame[i].key))])],
                           <<"collect">>)]
    /\ pc' = [pc EXCEPT ![i] = "collecting"]
    /\ UNCHANGED <<s3_client, bucket_name, event, result>>

\* A download_from_s3 that sends the request again when it fails.
GetObjectErrRetry(i) ==
    /\ pc[i] = "getting"
    /\ frame' = [frame EXCEPT ![i] = Logged(frame[i], <<"get_object">>)]
    /\ UNCHANGED <<s3_client, bucket_name, event, pc, result>>

\* download_from_s3, Err(err): no such key, or the request failed in transit.
\* return Err(TypedError::S3Get), which `?` returns from put_object.
GetObjectErr(i) ==
    /\ pc[i] = "getting"
    /\ Return(i, [frame[i] EXCEPT !.ret = Some(S3Get)])
    /\ UNCHANGED <<s3_client, bucket_name, event>>

\* collect().await fails: .map_err(|e| TypedError::S3Download(e.to_string()))?
CollectErr(i) ==
    /\ pc[i] = "collecting"
    /\ Return(i, [frame[i] EXCEPT !.ret = Some(S3Download("body stream error"))])
    /\ UNCHANGED <<s3_client, bucket_name, event>>

\* collect().await yields the body; put_object runs to its end.
CollectOk(i) ==
    /\ pc[i] = "collecting"
    /\ Return(i, RunToEnd([frame[i] EXCEPT !.data = Some(Unwrap(frame[i].response).body)]))
    /\ UNCHANGED <<s3_client, bucket_name, event>>

Next ==
    \E i \in Inv :
        \/ Invoke(i)
        \/ RejectEvent(i)
        \/ GetObjectOk(i)
        \/ GetObjectErr(i)
        \/ CollectErr(i)
        \/ CollectOk(i)

(***************************************************************************)
(* The inputs.  A selector is absent or a string.  Spec delivers NInv       *)
(* events: any key with no selector, or the sound PNG with Gradient, Mean  *)
(* or a selector that names nothing.  SpecSel delivers up to two events    *)
(* for a sound image, their selectors the listed names in varying case.    *)
(***************************************************************************)
Lower(s) == [k \in 1..Len(s) |-> IF s[k] \in 65..90 THEN s[k] + 32 ELSE s[k]]

Upper(s) == [k \in 1..Len(s) |-> IF s[k] \in 97..122 THEN s[k] - 32 ELSE s[k]]

\* s with each of its first MaxFlip letters in either case.
CaseVariants(s) ==
    {[k \in 1..Len(s) |-> IF k > MaxFlip THEN s[k]
                          ELSE IF k \in up THEN Upper(s)[k] ELSE Lower(s)[k]] :
        up \in SUBSET {k \in 1..Len(s) : k <= MaxFlip}}

\* The names the specification lists that HashAlg does not have.
BlockMeanName == <<66, 108, 111, 99, 107, 77, 101, 97, 110>>

DCTName == <<68, 67, 84>>

NotARealAlgo == <<110, 111, 116, 45, 97, 45, 114, 101, 97, 108, 45, 97, 108, 103, 111>>

SpecNames == {VariantName(a) : a \in HashAlg} \cup {BlockMeanName, DCTName}

Selectors == {Some(VariantName("Gradient")), Some(VariantName("Mean")), Some(NotARealAlgo)}

Events == [path : Keys, algo : {<<>>}] \cup [path : {"a.png"}, algo : Selectors]

SelSelectors == UNION {CaseVariants(n) : n \in SpecNames} \cup {NotARealAlgo}

SelEvents == [path : {"a.png"}, algo : {Some(s) : s \in SelSelectors}]

SelInv == {i \in Inv : i <= 2}

Init ==
    /\ s3_client = "s3"
    /\ bucket_name = "images"
    /\ event \in [Inv -> Events]
    /\ pc = [i \in Inv |-> "new"]
    /\ frame = [i \in Inv |-> Frame0]
    /\ result = [i \in Inv |-> <<>>]

InitSel ==
    /\ s3_client = "s3"
    /\ bucket_name = "images"
    /\ event \in {e \in [Inv -> SelEvents \cup {NoEvent}] :
                     \A i \in Inv : e[i] = NoEvent <=> i \notin SelInv}
    /\ pc = [i \in Inv |-> IF i \in SelInv THEN "new" ELSE "off"]
    /\ frame = [i \in Inv |-> Frame0]
    /\ result = [i \in Inv |-> <<>>]

Spec == Init /\ [][Next]_vars

SpecSel == InitSel /\ [][Next]_vars

(***************************************************************************)
(* Vocabulary of the properties.                                           *)
(***************************************************************************)
Done(i) == pc[i] = "done"

Called(i) == IsSome(frame[i].payload)

Outcome(i) == Unwrap(result[i])

Succeeded(i) == Done(i) /\ Outcome(i).kind = "Response"

Failed(i) == Done(i) /\ Called(i) /\ Outcome(i).kind = "TypedError"

Ran(i, op) == \E k \in 1..Len(frame[i].log) : frame[i].log[k] = op

Pos(i, op) == CHOOSE k \in 1..Len(frame[i].log) : frame[i].log[k] = op

Count(i, op) == Cardinality({k \in 1..Len(frame[i].log) : frame[i].log[k] = op})

ResponseFields == {"hash_base64", "algo", "image_size", "time_elapsed"}

HashRan(i) ==
    \/ IsSome(frame[i].hash)
    \/ Ran(i, "hash_image:normalize")
    \/ Ran(i, "hash_image:transform")

\* The four stages in pipeline order, each judged on the invocation's own inputs.
FetchOk(i) == IsSome(frame[i].response)

DownloadOk(i) == IsSome(frame[i].data)

GuessOk(i) == DownloadOk(i) /\ IsSome(GuessFormat(Unwrap(frame[i].data)))

DecodeOk(i) == GuessOk(i) /\ Unwrap(frame[i].data).intact

FirstFailing(i) ==
    IF ~FetchOk(i) THEN "fetch"
    ELSE IF ~DownloadOk(i) THEN "download"
    ELSE IF ~GuessOk(i) THEN "guess"
    ELSE IF ~DecodeOk(i) THEN "decode"
    ELSE "none"

\* The log of an invocation that stopped right after the call of a stage.
CallsUpTo(stage) ==
    CASE stage = "fetch" -> <<"get_object">>
      [] stage = "download" -> <<"get_object", "collect">>
      [] stage = "guess" -> <<"get_object", "collect", "with_guessed_format">>
      [] stage = "decode" -> <<"get_object", "collect", "with_guessed_format", "decode">>

\* The selector of the raw event names no HashAlg variant.
UnknownSelector(i) ==
    /\ IsSome(event[i].algo)
    /\ \A a \in HashAlg : VariantName(a) # Unwrap(event[i].algo)

\* The algorithm the raw event asks for: the named variant, Gradient if absent.
Requested(i) ==
    IF event[i].algo = <<>> THEN "Gradient"
    ELSE CHOOSE a \in HashAlg : VariantName(a) = Unwrap(event[i].algo)

(***************************************************************************)
(* C1.  A Response is returned only when the S3 get, the body download,    *)
(* the format guess and the decode have all succeeded; an invocation in    *)
(* which one of them failed returns an error value that carries no         *)
(* Response field, and its hasher was never run.                           *)
(***************************************************************************)
C1_ResponseOnlyOnFullSuccess ==
    \A i \in Inv :
        Done(i) /\ Called(i) =>
            /\ Succeeded(i) <=> FirstFailing(i) = "none"
            /\ Succeeded(i) =>
                  /\ IsSome(frame[i].format) /\ IsSome(frame[i].img)
                  /\ DOMAIN Outcome(i) = ResponseFields \cup {"kind"}
            /\ ~Succeeded(i) =>
                  /\ Outcome(i).kind = "TypedError"
                  /\ DOMAIN Outcome(i) \cap ResponseFields = {}
                  /\ ~HashRan(i)

C1_Witness ==
    \E i, j \in Inv :
        /\ Succeeded(i) /\ HashRan(i)
        /\ Failed(j) /\ FirstFailing(j) = "decode"

(***************************************************************************)
(* C2.  As claimed: a failing invocation returns the error of its first    *)
(* failing stage (fetch, download, format guess, decode), makes no call    *)
(* after that stage's, and the error's variant tells which of the four     *)
(* stages failed.                                                          *)
(***************************************************************************)
C2_Original ==
    \A i, j \in Inv :
        Failed(i) /\ Failed(j) =>
            /\ frame[i].log = CallsUpTo(FirstFailing(i))
            /\ Outcome(i).tag = Outcome(j).tag => FirstFailing(i) = FirstFailing(j)

\* The variant each stage's failure is returned under.
StageTag(stage) ==
    CASE stage = "fetch" -> "S3Get"
      [] stage = "download" -> "S3Download"
      [] stage = "guess" -> "InvalidFormat"
      [] stage = "decode" -> "InvalidFormat"

\* The last call a failure of each stage is returned from: an unguessed format
\* is reported by decode().
StageCalls(stage) == CallsUpTo(IF stage = "guess" THEN "decode" ELSE stage)

(***************************************************************************)
(* C2, amended.  A failing invocation returns the error of its first       *)
(* failing stage and makes no call after the one that reports it; the      *)
(* variant is S3Get for fetch, S3Download for download and InvalidFormat   *)
(* for both format guess and decode, which decode() reports alike.         *)
(***************************************************************************)
C2_FirstFailureUpToVariant ==
    \A i \in Inv :
        Failed(i) =>
            /\ FirstFailing(i) # "none"
            /\ Outcome(i).tag = StageTag(FirstFailing(i))
            /\ frame[i].log = StageCalls(FirstFailing(i))
            /\ Outcome(i) = Unwrap(frame[i].ret)

C2_Witness ==
    \E i, j \in Inv :
        /\ Failed(i) /\ FirstFailing(i) = "guess"
        /\ Failed(j) /\ FirstFailing(j) = "download"

(***************************************************************************)
(* C3.  As claimed: a selector that names no variant yields an             *)
(* UnsupportedAlgorithm error, never the default algorithm, never a hash.  *)
(***************************************************************************)
C3_Original ==
    \A i \in Inv :
        UnknownSelector(i) /\ Done(i) =>
            /\ Outcome(i).tag = "UnsupportedAlgorithm"
            /\ ~HashRan(i)

(***************************************************************************)
(* C3, amended.  A selector that names no variant makes the payload fail   *)
(* to deserialize: the runtime reports that error, which is no TypedError, *)
(* and put_object is never called, so nothing is fetched, no algorithm is  *)
(* defaulted and no hash is computed.                                      *)
(***************************************************************************)
C3_UnknownSelectorRejected ==
    \A i \in Inv :
        UnknownSelector(i) =>
            /\ pc[i] \in {"new", "done"}
            /\ frame[i] = Frame0
            /\ Done(i) => Outcome(i) = PayloadError /\ Outcome(i).kind # "TypedError"

C3_Witness ==
    \E i \in Inv :
        /\ IsSome(event[i].algo) /\ Unwrap(event[i].algo) = NotARealAlgo
        /\ Done(i) /\ Outcome(i) = PayloadError

(***************************************************************************)
(* C4.  In a successful invocation the hasher is configured with the       *)
(* requested algorithm, Gradient when the selector is absent, and the      *)
(* Response's algo is the algorithm the hash was computed with.            *)
(***************************************************************************)
C4_AlgorithmUsedIsReported ==
    \A i \in Inv :
        Succeeded(i) =>
            /\ Unwrap(frame[i].hasher).hash_alg = Requested(i)
            /\ Unwrap(frame[i].hash).alg = Unwrap(frame[i].hasher).hash_alg
            /\ Outcome(i).algo = Unwrap(frame[i].hash).alg

C4_Witness ==
    \E i, j \in Inv :
        /\ Succeeded(i) /\ event[i].algo = <<>> /\ Outcome(i).algo = "Gradient"
        /\ Succeeded(j) /\ IsSome(event[j].algo) /\ Outcome(j).algo = "Mean"

(***************************************************************************)
(* C5.  As claimed: the selector is matched without regard to case         *)
(* against Mean, Gradient, VertGradient, DoubleGradient, BlockMean,        *)
(* Median, Blockhash and DCT: every spelling of a listed name is accepted, *)
(* and two selectors that differ only in case select the same algorithm.   *)
(***************************************************************************)
C5_Original ==
    \A i, j \in Inv :
        /\ IsSome(event[i].algo) /\ pc[i] \notin {"off", "new"}
        /\ IsSome(event[j].algo) /\ pc[j] \notin {"off", "new"}
        /\ Lower(Unwrap(event[i].algo)) \in {Lower(n) : n \in SpecNames}
        /\ Lower(Unwrap(event[i].algo)) = Lower(Unwrap(event[j].algo))
        => /\ Called(i) /\ Called(j)
           /\ Unwrap(frame[i].payload).algo = Unwrap(frame[j].payload).algo

(***************************************************************************)
(* C5, amended.  The selector is matched exactly, case included, against   *)
(* the HashAlg variant names Mean, Median, Gradient, VertGradient,         *)
(* DoubleGradient and Blockhash: each of these names is accepted and       *)
(* selects its own variant; every other string (another spelling of a      *)
(* name, BlockMean, DCT) is rejected.                                      *)
(***************************************************************************)
C5_SelectorMatchedExactly ==
    \A i \in Inv :
        IsSome(event[i].algo) /\ pc[i] \notin {"off", "new"} =>
            /\ Called(i) <=> \E a \in HashAlg : VariantName(a) = Unwrap(event[i].algo)
            /\ Called(i) =>
                  /\ IsSome(Unwrap(frame[i].payload).algo)
                  /\ VariantName(Unwrap(Unwrap(frame[i].payload).algo))
                        = Unwrap(event[i].algo)
            /\ ~Called(i) => Outcome(i) = PayloadError

C5_Witness ==
    \E i, j \in Inv :
        /\ Called(i) /\ Unwrap(event[i].algo) = VariantName("Mean")
        /\ Done(j) /\ ~Called(j)
        /\ Unwrap(event[j].algo) # VariantName("Mean")
        /\ Lower(Unwrap(event[j].algo)) = Lower(VariantName("Mean"))

(***************************************************************************)
(* C6.  For a downloaded buffer whose format cannot be guessed or whose    *)
(* stream the decoder rejects, put_object returns InvalidFormat and        *)
(* neither computes nor returns a hash.                                    *)
(***************************************************************************)
C6_BadBufferIsInvalidFormat ==
    \A i \in Inv :
        Done(i) /\ DownloadOk(i) /\ ~DecodeOk(i) =>
            /\ Outcome(i).kind = "TypedError"
            /\ Outcome(i).tag = "InvalidFormat"
            /\ ~HashRan(i)
            /\ frame[i].img = <<>>
            /\ "hash_base64" \notin DOMAIN Outcome(i)

C6_Witness ==
    \E i, j \in Inv :
        /\ Done(i) /\ DownloadOk(i) /\ ~GuessOk(i) /\ Outcome(i).tag = "InvalidFormat"
        /\ Done(j) /\ GuessOk(j) /\ ~DecodeOk(j) /\ Outcome(j).tag = "InvalidFormat"

\* The calls made between Instant::now() and start.elapsed().
Timed(i) ==
    SubSeq(frame[i].log, Unwrap(frame[i].start) + 1,
           Unwrap(frame[i].start) + Unwrap(frame[i].elapsed))

(***************************************************************************)
(* C7.  As claimed: the timer is started after decoding and after the      *)
(* resize/grayscale normalization, and stopped before the base64           *)
(* encoding, so that it brackets the transform only.                       *)
(***************************************************************************)
C7_Original ==
    \A i \in Inv :
        Succeeded(i) =>
            /\ Pos(i, "decode") <= Unwrap(frame[i].start)
            /\ Pos(i, "hash_image:normalize") <= Unwrap(frame[i].start)
            /\ Timed(i) = <<"hash_image:transform">>
            /\ Pos(i, "to_base64") > Unwrap(frame[i].start) + Unwrap(frame[i].elapsed)

(***************************************************************************)
(* C7, amended.  The timer brackets the hash_image call only: it is        *)
(* started after decoding and after the hasher is built, and stopped       *)
(* before the base64 encoding; the resize/grayscale normalization happens  *)
(* inside hash_image, so it is included in time_elapsed, and decoding is   *)
(* excluded.                                                               *)
(***************************************************************************)
C7_TimerBracketsHashImage ==
    \A i \in Inv :
        Succeeded(i) =>
            /\ Pos(i, "decode") <= Unwrap(frame[i].start)
            /\ Pos(i, "to_hasher") <= Unwrap(frame[i].start)
            /\ Timed(i) = <<"hash_image:normalize", "hash_image:transform">>
            /\ Pos(i, "to_base64") > Unwrap(frame[i].start) + Unwrap(frame[i].elapsed)
            /\ Outcome(i).time_elapsed = Len(Timed(i))

C7_Witness ==
    \E i \in Inv :
        /\ Succeeded(i)
        /\ Outcome(i).time_elapsed > 0
        /\ Ran(i, "decode") /\ Ran(i, "to_base64")

(***************************************************************************)
(* C8.  An invocation issues get_object at most once; when it fails the    *)
(* invocation returns S3Get at once: no retry, no download, no decoding,   *)
(* no hashing.                                                             *)
(***************************************************************************)
C8_FetchAtMostOnce ==
    \A i \in Inv :
        /\ Count(i, "get_object") <= 1
        /\ Done(i) /\ Called(i) /\ ~FetchOk(i) =>
              /\ Outcome(i) = S3Get
              /\ frame[i].log = <<"get_object">>
              /\ frame[i].data = <<>> /\ frame[i].img = <<>> /\ ~HashRan(i)

C8_Witness ==
    \E i, j \in Inv :
        /\ Done(i) /\ Called(i) /\ ~FetchOk(i) /\ frame[i].key = "a.png"
        /\ Succeeded(j) /\ Count(j, "get_object") = 1

Own(i) == <<event[i], pc[i], frame[i], result[i]>>

\* What invocation i has so far is determined by its own event and the object
\* stored under its own key.
OwnInputsOnly ==
    \A i \in Inv :
        Called(i) =>
            /\ frame[i].key = event[i].path
            /\ IsSome(frame[i].response) =>
                  Some(Unwrap(frame[i].response).body) = Objects[event[i].path]
            /\ Succeeded(i) =>
                  /\ frame[i].data = Objects[event[i].path]
                  /\ Outcome(i).algo = Requested(i)
                  /\ Outcome(i).image_size = <<Unwrap(frame[i].data).width,
                                               Unwrap(frame[i].data).height>>

\* A step leaves the shared client and bucket name alone and changes what at
\* most one invocation owns.
StepIsolated ==
    /\ s3_client' = s3_client
    /\ bucket_name' = bucket_name
    /\ \A i, j \in Inv : i # j /\ Own(i)' # Own(i) => Own(j)' = Own(j)

(***************************************************************************)
(* C10.  Under any interleaving of invocations, no step of one changes     *)
(* state another can see: the S3 client and the bucket name are only read, *)
(* each invocation changes only its own bytes/image/hash chain, and what   *)
(* it returns depends only on its own request and the bytes under its key. *)
(***************************************************************************)
C10_NoSharedMutableState == []OwnInputsOnly /\ [][StepIsolated]_vars

C10_Witness ==
    \E i, j \in Inv :
        /\ i # j
        /\ pc[i] = "collecting" /\ frame[i].key = "a.png"
        /\ Succeeded(j) /\ frame[j].key = "b.jpg"

====
